---- MODULE Spec2Model ----
(***************************************************************************)
(* Model of the I2C sensor drivers of i2c-monitor:                         *)
(*   devices/ccs811.py   -- CCS811 gas sensor (eCO2 / eTVOC)               *)
(*   devices/max30102.py -- humidity / temperature driver                  *)
(*                                                                         *)
(* The bus client (pyi2c.I2CDevice) is the environment: every call of a    *)
(* driver method draws the bytes the bus returns and the transport status  *)
(* code from small sets.  Each action is one complete call of a public     *)
(* driver method; it records the value returned, the exception raised, the *)
(* bus transactions issued and the driver methods entered, in order.       *)
(***************************************************************************)
EXTENDS Integers, Sequences, FiniteSets, TLC

VARIABLES op, arg, ret, exc, bus, calls, logs, nPolls, nErrPolls, nSoftReset

vars == <<op, arg, ret, exc, bus, calls, logs, nPolls, nErrPolls, nSoftReset>>

(* ------------------------------ bounds ---------------------------------- *)

\* number of getECO2ETVOC polls followed in one behaviour
MaxPolls == 2

(* ------------------------- bus transactions ----------------------------- *)

\* I2CDevice.write(data): one write transaction
Write(data) == [op |-> "write", data |-> data, n |-> 0]

\* I2CDevice.writeread(reg, n): combined write of one address byte, read of n
WriteRead(reg, n) == [op |-> "writeread", data |-> <<reg>>, n |-> n]

\* I2CDevice.read(n)
Read(n) == [op |-> "read", data |-> <<>>, n |-> n]

\* what a driver method did: return value, bus traffic, methods entered,
\* log records, exception
Effect(r, b, c, l, e) == [ret |-> r, bus |-> b, calls |-> c, logs |-> l, exc |-> e]

(* --------------------------- integer helpers ---------------------------- *)

RECURSIVE Pow2(_)
Pow2(k) == IF k = 0 THEN 1 ELSE 2 * Pow2(k - 1)

\* x & 2**k for a byte x
AndPow2(x, k) == ((x \div Pow2(k)) % 2) * Pow2(k)

\* x << k
Shl(x, k) == x * Pow2(k)

(* ------------------------------ CCS811 ---------------------------------- *)

APP_START_ADDR == 244
MEAS_MODE_ADDR == 1
MEAS_MODE_CMD == 16
RESULT_ADDR == 2
ENV_DATA == 5
SW_RESET == 255

\* mutation: measurement mode is written before app start
CCS811_initializeSwapped ==
    Effect(<<>>,
           << Write(<<MEAS_MODE_ADDR, MEAS_MODE_CMD>>), Write(<<APP_START_ADDR>>) >>,
           << "initialize" >>,
           << "CCS811 initialized.", "CCS811 set to measurement mode." >>,
           "none")

\* CCS811.initialize: app start, then measurement mode; status never inspected
CCS811_initialize ==
    Effect(<<>>,
           << Write(<<APP_START_ADDR>>), Write(<<MEAS_MODE_ADDR, MEAS_MODE_CMD>>) >>,
           << "initialize" >>,
           << "CCS811 initialized.", "CCS811 set to measurement mode." >>,
           "none")

\* CCS811.softReset: one write of the reset register and its key
CCS811_softReset ==
    Effect(<<>>,
           << Write(<<SW_RESET, 17, 229, 114, 138>>) >>,
           << "softReset" >>,
           << "CCS811 did soft reset and return to boot mode." >>,
           "none")

\* the six causes of the error branch, in the order of the chain
WRITE_REG_INVALID == " -- WRITE_REG_INVALID."
READ_REG_INVALID == " -- READ_REG_INVALID."
MEASMODE_INVALID == " -- MEASMODE_INVALID."
MAX_RESISTANCE ==
    " -- MAX_RESISTANCE. The sensor resistance measurement has reached or exceeded the maximum range."
HEATER_FAULT == " -- HEATER_FAULT. The Heater current in the CCS811 is not in range"
HEATER_SUPPLY == " -- HEATER_SUPPLY. The Heater voltage is not being applied correctly"

\* mutation: bit 1 is tested before bit 0
ErrorCauseReordered(error_id) ==
    IF AndPow2(error_id, 1) # 0 THEN << READ_REG_INVALID >>
    ELSE IF AndPow2(error_id, 0) # 0 THEN << WRITE_REG_INVALID >>
    ELSE IF AndPow2(error_id, 2) # 0 THEN << MEASMODE_INVALID >>
    ELSE IF AndPow2(error_id, 3) # 0 THEN << MAX_RESISTANCE >>
    ELSE IF AndPow2(error_id, 4) # 0 THEN << HEATER_FAULT >>
    ELSE IF AndPow2(error_id, 5) # 0 THEN << HEATER_SUPPLY >>
    ELSE << >>

\* the cause logged for an error_id: first set bit among bits 0..5 wins,
\* nothing is logged when none of them is set
ErrorCause(error_id) ==
    IF AndPow2(error_id, 0) # 0 THEN << WRITE_REG_INVALID >>
    ELSE IF AndPow2(error_id, 1) # 0 THEN << READ_REG_INVALID >>
    ELSE IF AndPow2(error_id, 2) # 0 THEN << MEASMODE_INVALID >>
    ELSE IF AndPow2(error_id, 3) # 0 THEN << MAX_RESISTANCE >>
    ELSE IF AndPow2(error_id, 4) # 0 THEN << HEATER_FAULT >>
    ELSE IF AndPow2(error_id, 5) # 0 THEN << HEATER_SUPPLY >>
    ELSE << >>

\* mutation: initialize() before softReset()
RecoverySwapped ==
    Effect(<<>>,
           CCS811_initialize.bus \o CCS811_softReset.bus,
           CCS811_initialize.calls \o CCS811_softReset.calls,
           CCS811_initialize.logs \o CCS811_softReset.logs,
           "none")

\* the recovery of the error branch: softReset() then initialize()
Recovery ==
    Effect(<<>>,
           CCS811_softReset.bus \o CCS811_initialize.bus,
           CCS811_softReset.calls \o CCS811_initialize.calls,
           CCS811_softReset.logs \o CCS811_initialize.logs,
           "none")

\* mutation: the not-ready tests come before the error test
interpretStatusErrorLast(status, error_id) ==
    IF AndPow2(status, 3) = 0
      THEN Effect(FALSE, <<>>, <<"interpretStatus">>, <<"CCS811 has no new data">>, "none")
    ELSE IF AndPow2(status, 4) = 0
      THEN Effect(FALSE, <<>>, <<"interpretStatus">>,
                  <<"CCS811 did not load valid application firmware">>, "none")
    ELSE IF AndPow2(status, 7) = 0
      THEN Effect(FALSE, <<>>, <<"interpretStatus">>,
                  <<"CCS811 is not in application mode">>, "none")
    ELSE IF ~(AndPow2(status, 0) = 0)
      THEN Effect(FALSE,
                  Recovery.bus,
                  <<"interpretStatus">> \o Recovery.calls,
                  <<"CCS811 has error">> \o ErrorCause(error_id) \o Recovery.logs,
                  "none")
    ELSE Effect(TRUE, <<>>, <<"interpretStatus">>, <<>>, "none")

\* mutation: the firmware test (bit 4) is missing
interpretStatusNoFirmware(status, error_id) ==
    IF ~(AndPow2(status, 0) = 0)
      THEN Effect(FALSE,
                  Recovery.bus,
                  <<"interpretStatus">> \o Recovery.calls,
                  <<"CCS811 has error">> \o ErrorCause(error_id) \o Recovery.logs,
                  "none")
    ELSE IF AndPow2(status, 3) = 0
      THEN Effect(FALSE, <<>>, <<"interpretStatus">>, <<"CCS811 has no new data">>, "none")
    ELSE IF AndPow2(status, 7) = 0
      THEN Effect(FALSE, <<>>, <<"interpretStatus">>,
                  <<"CCS811 is not in application mode">>, "none")
    ELSE Effect(TRUE, <<>>, <<"interpretStatus">>, <<>>, "none")

\* mutation: a sensor outside application mode is recovered like an error
interpretStatusRecoverMode(status, error_id) ==
    IF ~(AndPow2(status, 0) = 0)
      THEN Effect(FALSE,
                  Recovery.bus,
                  <<"interpretStatus">> \o Recovery.calls,
                  <<"CCS811 has error">> \o ErrorCause(error_id) \o Recovery.logs,
                  "none")
    ELSE IF AndPow2(status, 3) = 0
      THEN Effect(FALSE, <<>>, <<"interpretStatus">>, <<"CCS811 has no new data">>, "none")
    ELSE IF AndPow2(status, 4) = 0
      THEN Effect(FALSE, <<>>, <<"interpretStatus">>,
                  <<"CCS811 did not load valid application firmware">>, "none")
    ELSE IF AndPow2(status, 7) = 0
      THEN Effect(FALSE, Recovery.bus, <<"interpretStatus">> \o Recovery.calls,
                  <<"CCS811 is not in application mode">> \o Recovery.logs, "none")
    ELSE Effect(TRUE, <<>>, <<"interpretStatus">>, <<>>, "none")

\* mutation: the recovery is run a second time
interpretStatusRetry(status, error_id) ==
    IF ~(AndPow2(status, 0) = 0)
      THEN Effect(FALSE,
                  Recovery.bus \o Recovery.bus,
                  <<"interpretStatus">> \o Recovery.calls \o Recovery.calls,
                  <<"CCS811 has error">> \o ErrorCause(error_id) \o Recovery.logs
                      \o Recovery.logs,
                  "none")
    ELSE IF AndPow2(status, 3) = 0
      THEN Effect(FALSE, <<>>, <<"interpretStatus">>, <<"CCS811 has no new data">>, "none")
    ELSE IF AndPow2(status, 4) = 0
      THEN Effect(FALSE, <<>>, <<"interpretStatus">>,
                  <<"CCS811 did not load valid application firmware">>, "none")
    ELSE IF AndPow2(status, 7) = 0
      THEN Effect(FALSE, <<>>, <<"interpretStatus">>,
                  <<"CCS811 is not in application mode">>, "none")
    ELSE Effect(TRUE, <<>>, <<"interpretStatus">>, <<>>, "none")

\* CCS811.interpretStatus: ret is is_ok
interpretStatus(status, error_id) ==
    IF ~(AndPow2(status, 0) = 0)
      THEN Effect(FALSE,
                  Recovery.bus,
                  <<"interpretStatus">> \o Recovery.calls,
                  <<"CCS811 has error">> \o ErrorCause(error_id) \o Recovery.logs,
                  "none")
    ELSE IF AndPow2(status, 3) = 0
      THEN Effect(FALSE, <<>>, <<"interpretStatus">>, <<"CCS811 has no new data">>, "none")
    ELSE IF AndPow2(status, 4) = 0
      THEN Effect(FALSE, <<>>, <<"interpretStatus">>,
                  <<"CCS811 did not load valid application firmware">>, "none")
    ELSE IF AndPow2(status, 7) = 0
      THEN Effect(FALSE, <<>>, <<"interpretStatus">>,
                  <<"CCS811 is not in application mode">>, "none")
    ELSE Effect(TRUE, <<>>, <<"interpretStatus">>, <<>>, "none")

\* mutation: low byte first
BigEndian16Swapped(hi, lo) == Shl(lo, 8) + hi

\* (read_data[i] << 8) + read_data[i+1]
BigEndian16(hi, lo) == Shl(hi, 8) + lo

\* mutation: the limit itself is rejected and nothing above it
TVOCStrangeOff(TVOC) == TVOC < 0 \/ 32768 = TVOC

\* the plausibility test of getECO2ETVOC
TVOCStrange(TVOC) == TVOC < 0 \/ 32768 < TVOC

\* mutation: every non-negative status code counts as success
StatusCodeOkLoose(status_code) == status_code >= 0

\* self._i2cdevice.status_code.value == 0
StatusCodeOk(status_code) == status_code = 0

\* CCS811.getECO2ETVOC on the 8 bytes read_data (1-based here) and the
\* transport status code of the read
getECO2ETVOC(read_data, status_code) ==
    LET rd     == << WriteRead(RESULT_ADDR, 8) >>
        st     == interpretStatus(read_data[5], read_data[6])
        eCO2   == BigEndian16(read_data[1], read_data[2])
        TVOC   == BigEndian16(read_data[3], read_data[4])
    IN  IF StatusCodeOk(status_code)
          THEN IF st.ret
                 THEN IF TVOCStrange(TVOC)
                        THEN Effect(<<-1, -1>>, rd \o st.bus, <<"getECO2ETVOC">> \o st.calls,
                                    st.logs \o <<"CCS811 eCO2 value is strange.">>, "none")
                        ELSE Effect(<<eCO2, TVOC>>, rd \o st.bus,
                                    <<"getECO2ETVOC">> \o st.calls, st.logs, "none")
                 ELSE Effect(<<-1, -1>>, rd \o st.bus, <<"getECO2ETVOC">> \o st.calls,
                             st.logs, "none")
          ELSE Effect(<<-1, -1>>, rd, <<"getECO2ETVOC">>, <<>>, "none")


\* resolution of the humidity / temperature inputs: the inputs of
\* writeEnvironmentData are the rationals n / EnvDen, EnvFine steps per 1/512
EnvFine == 4

EnvDen == Pow2(9) * EnvFine

\* int(x) for the rational num / den, den > 0: truncation towards zero
PyInt(num, den) == IF num >= 0 THEN num \div den ELSE -((-num) \div den)

\* x % m for the rational x = num / den and integer m > 0, as a numerator
\* over den: the result has the sign of m
PyMod(num, den, m) == num % (m * den)

\* mutation: high byte taken by dividing by 2**9
Q9HighShifted(n) == PyInt(n * Pow2(9), EnvDen * Pow2(9))

\* int( (x*2**9)/(2**8) ) for x = n / EnvDen
Q9High(n) == PyInt(n * Pow2(9), EnvDen * Pow2(8))

\* int( (x*2**9)%(2**8) ) for x = n / EnvDen
Q9Low(n) == PyInt(PyMod(n * Pow2(9), EnvDen, Pow2(8)), EnvDen)

\* mutation: either condition alone lets the write through
EnvAcceptedEither(hn, tn) == hn > 0 \/ tn > -25 * EnvDen

\* humidity > 0 and temperature > -25
EnvAccepted(hn, tn) == hn > 0 /\ tn > -25 * EnvDen

\* CCS811.writeEnvironmentData(hn / EnvDen, tn / EnvDen)
writeEnvironmentData(hn, tn) ==
    IF EnvAccepted(hn, tn)
      THEN Effect(<<>>,
                  << Write(<< ENV_DATA,
                              Q9High(hn), Q9Low(hn),
                              Q9High(tn + 25 * EnvDen), Q9Low(tn + 25 * EnvDen) >>) >>,
                  <<"writeEnvironmentData">>, <<>>, "none")
      ELSE Effect(<<>>, <<>>, <<"writeEnvironmentData">>, <<>>, "none")

(* ------------------------------ MAX30102 -------------------------------- *)

\* 2**20: humidity and temperature are carried as integers in units of
\* 1/2**20, which is exact for the float arithmetic of the driver
Scale == 1048576

\* the number x in units of 1/Scale
Fixed(x) == x * Scale

\* self._INIT_CMD_LIST and self._TRIG_MEAS_LIST: max30102.py reads them
\* (lines 24, 45) but never assigns them; they are taken as device constants
\* given to the instance and carried as opaque tokens outside the byte range
INIT_CMD_LIST == << -1 >>
TRIG_MEAS_LIST == << -2 >>

\* getBit(x, k) of pyi2c
getBit(x, k) == (x \div Pow2(k)) % 2

\* MAX30102.initialize
MAX30102_initialize ==
    Effect(<<>>, << Write(INIT_CMD_LIST) >>, <<"initialize">>,
           <<"MAX30102 initialized.">>, "none")

\* MAX30102.softReset: the class defines no such method, the call raises
MAX30102_softReset ==
    Effect(<<>>, <<>>, <<"softReset">>, <<>>, "AttributeError")

\* mutation: the calibration bit is tested before the busy bit
checkStatusCalibrationFirst(status) ==
    IF getBit(status, 3) = 0
      THEN Effect(FALSE, MAX30102_initialize.bus,
                  <<"checkStatus">> \o MAX30102_initialize.calls,
                  <<"MAX30102 calibration is not enabled">> \o MAX30102_initialize.logs,
                  "none")
    ELSE IF getBit(status, 7) = 1
      THEN Effect(FALSE, <<>>, <<"checkStatus">>, <<"MAX30102 is busy">>, "none")
    ELSE Effect(TRUE, <<>>, <<"checkStatus">>, <<>>, "none")

\* MAX30102.checkStatus: ret is is_ok
checkStatus(status) ==
    IF getBit(status, 7) = 1
      THEN Effect(FALSE, <<>>, <<"checkStatus">>, <<"MAX30102 is busy">>, "none")
    ELSE IF getBit(status, 3) = 0
      THEN Effect(FALSE, MAX30102_initialize.bus,
                  <<"checkStatus">> \o MAX30102_initialize.calls,
                  <<"MAX30102 calibration is not enabled">> \o MAX30102_initialize.logs,
                  "none")
    ELSE Effect(TRUE, <<>>, <<"checkStatus">>, <<>>, "none")

\* x & 0xf0 and x & 0x0f
AndF0(x) == (x \div 16) * 16
And0F(x) == x % 16

\* humidity_data of the 7 bytes read_data (1-based here)
HumidityData(read_data) ==
    Shl(read_data[2], 12) + Shl(read_data[3], 4) + AndF0(read_data[4])

\* temperature_data
TemperatureData(read_data) ==
    Shl(And0F(read_data[4]), 16) + Shl(read_data[5], 8) + read_data[6]

\* humidity_data/(2**20)*100, in units of 1/Scale
HumidityOf(humidity_data) == humidity_data * 100

\* mutation: the calibration offset is left out
TemperatureOfUncalibrated(temperature_data) == temperature_data * 200 - Fixed(50)

\* temperature_data/(2**20)*200 - 50, then the calibration -= 1
TemperatureOf(temperature_data) == temperature_data * 200 - Fixed(50) - Fixed(1)

\* the plausibility test of getHumidityTemperature
IsFake(humidity, temperature) ==
    \/ temperature < Fixed(-40)
    \/ Fixed(120) < temperature
    \/ humidity < 0
    \/ Fixed(100) < humidity

\* MAX30102.getHumidityTemperature on the 7 bytes read and the transport
\* status code of the read; an exception ends the call without a value
getHumidityTemperature(read_data, status_code) ==
    LET tx          == << Write(TRIG_MEAS_LIST), Read(7) >>
        st          == checkStatus(read_data[1])
        humidity    == HumidityOf(HumidityData(read_data))
        temperature == TemperatureOf(TemperatureData(read_data))
        fake        == <<"MAX30102 humidity/temperature value is fake.">>
        sr          == MAX30102_softReset
    IN  IF StatusCodeOk(status_code)
          THEN IF st.ret
                 THEN IF IsFake(humidity, temperature)
                        THEN IF sr.exc # "none"
                               THEN Effect(<<>>, tx \o st.bus \o sr.bus,
                                           <<"getHumidityTemperature">> \o st.calls \o sr.calls,
                                           st.logs \o fake \o sr.logs, sr.exc)
                               ELSE Effect(<<Fixed(-1), Fixed(-1)>>, tx \o st.bus \o sr.bus,
                                           <<"getHumidityTemperature">> \o st.calls \o sr.calls,
                                           st.logs \o fake \o sr.logs, "none")
                        ELSE Effect(<<humidity, temperature>>, tx \o st.bus,
                                    <<"getHumidityTemperature">> \o st.calls, st.logs, "none")
                 ELSE Effect(<<Fixed(-1), Fixed(-1)>>, tx \o st.bus,
                             <<"getHumidityTemperature">> \o st.calls, st.logs, "none")
          ELSE Effect(<<Fixed(-1), Fixed(-1)>>, tx, <<"getHumidityTemperature">>, <<>>, "none")


(* ------------------------- inputs of the calls -------------------------- *)

\* transport status codes: 0 is success
StatusCodes == {0, 1}

\* status bytes of the gas sensor: valid (bits 3, 4, 7), valid with a spare
\* bit, error alone, error with all other bits, and each not-ready case
GasStatus == {152, 154, 1, 255, 144, 136, 24}

GasErrorId == {0, 48}

\* eCO2 bytes: 400 and 29328
GasB0 == {1, 114}
GasB1 == {144}

\* eTVOC bytes: 0, 1, 32768, 32769
GasB2 == {0, 128}
GasB3 == {0, 1}

\* raw current / ADC bytes
GasDiag == {<<0, 0>>, <<255, 3>>}

GasReadData ==
    { <<b0, b1, b2, b3, st, er, d[1], d[2]>> :
        b0 \in GasB0, b1 \in GasB1, b2 \in GasB2, b3 \in GasB3,
        st \in GasStatus, er \in GasErrorId, d \in GasDiag }

\* humidity inputs as numerators over EnvDen: -1, 0, smallest positive,
\* 1/512, off-grid values, 100 and a value beyond 128
HumidityNums ==
    { -EnvDen, 0, 1, EnvFine, EnvFine + 1, 50 * EnvDen + 3, 100 * EnvDen, 130 * EnvDen + 7 }

\* temperature inputs as numerators over EnvDen: -26, -25, just above -25,
\* below zero, 0, off-grid, 120
TemperatureNums ==
    { -26 * EnvDen, -25 * EnvDen, -25 * EnvDen + 1, -EnvDen - 1, 0,
      20 * EnvDen + 5, 120 * EnvDen }

\* status bytes of the MAX30102: valid, busy, busy and calibrated, not calibrated
BioStatus == {8, 128, 136, 0}

BioB1 == {0, 255}
BioB2 == {0, 255}

\* byte 3 carries the low humidity nibble and the high temperature nibble
BioB3 == {0, 4, 13, 244, 255}

\* bytes 4 and 5, the low 16 bits of temperature_data
BioLow == {<<0, 0>>, <<255, 255>>}

BioReadData ==
    { <<st, b1, b2, b3, lo[1], lo[2], 0>> :
        st \in BioStatus, b1 \in BioB1, b2 \in BioB2, b3 \in BioB3, lo \in BioLow }

(* ------------------------------ the calls ------------------------------- *)

Init ==
    /\ op = "init"
    /\ arg = [data |-> <<>>, status_code |-> 0]
    /\ ret = <<>>
    /\ exc = "none"
    /\ bus = <<>>
    /\ calls = <<>>
    /\ logs = <<>>
    /\ nPolls = 0
    /\ nErrPolls = 0
    /\ nSoftReset = 0

\* the outcome e of the call name(a) becomes the current state
Apply(name, a, e) ==
    /\ op' = name
    /\ arg' = a
    /\ ret' = e.ret
    /\ exc' = e.exc
    /\ bus' = e.bus
    /\ calls' = e.calls
    /\ logs' = e.logs

\* number of entries of the sequence s equal to x
Count(s, x) == Cardinality({ i \in 1..Len(s) : s[i] = x })

\* mutation: the driver remembers a failed poll and answers the next poll
\* with (-1,-1) without decoding it
GetECO2ETVOCLatched ==
    /\ nPolls < MaxPolls
    /\ \E rd \in GasReadData, sc \in StatusCodes :
         LET latched == op = "getECO2ETVOC" /\ ret = <<-1, -1>>
             e == IF latched
                    THEN Effect(<<-1, -1>>, << WriteRead(RESULT_ADDR, 8) >>,
                                <<"getECO2ETVOC">>, <<>>, "none")
                    ELSE getECO2ETVOC(rd, sc)
         IN  /\ Apply("getECO2ETVOC", [data |-> rd, status_code |-> sc], e)
             /\ nPolls' = nPolls + 1
             /\ nErrPolls' = nErrPolls + (IF sc = 0 /\ rd[5] % 2 = 1 THEN 1 ELSE 0)
             /\ nSoftReset' = nSoftReset + Count(e.calls, "softReset")

\* a poll of the gas sensor
GetECO2ETVOC ==
    /\ nPolls < MaxPolls
    /\ \E rd \in GasReadData, sc \in StatusCodes :
         LET e == getECO2ETVOC(rd, sc)
         IN  /\ Apply("getECO2ETVOC", [data |-> rd, status_code |-> sc], e)
             /\ nPolls' = nPolls + 1
             /\ nErrPolls' = nErrPolls + (IF sc = 0 /\ rd[5] % 2 = 1 THEN 1 ELSE 0)
             /\ nSoftReset' = nSoftReset + Count(e.calls, "softReset")

\* the caller starts the gas sensor
CCS811Initialize ==
    /\ Apply("initialize", [data |-> <<>>, status_code |-> 0], CCS811_initialize)
    /\ UNCHANGED <<nPolls, nErrPolls, nSoftReset>>

\* the caller passes compensation data to the gas sensor
WriteEnvironmentData ==
    \E hn \in HumidityNums, tn \in TemperatureNums :
      /\ Apply("writeEnvironmentData", [data |-> <<hn, tn>>, status_code |-> 0],
               writeEnvironmentData(hn, tn))
      /\ UNCHANGED <<nPolls, nErrPolls, nSoftReset>>

\* a poll of the humidity / temperature sensor
GetHumidityTemperature ==
    \E rd \in BioReadData, sc \in StatusCodes :
      /\ Apply("getHumidityTemperature", [data |-> rd, status_code |-> sc],
               getHumidityTemperature(rd, sc))
      /\ UNCHANGED <<nPolls, nErrPolls, nSoftReset>>

Next ==
    \/ GetECO2ETVOC
    \/ CCS811Initialize
    \/ WriteEnvironmentData
    \/ GetHumidityTemperature

Spec == Init /\ [][Next]_vars


(* ----------------- status decoding over all byte values ----------------- *)

Bytes == 0..255

\* a status byte and an error_id byte are given, nothing has been called
InitStatus ==
    /\ op = "input"
    /\ arg \in { [data |-> <<st, er>>, status_code |-> 0] : st \in Bytes, er \in Bytes }
    /\ ret = <<>>
    /\ exc = "none"
    /\ bus = <<>>
    /\ calls = <<>>
    /\ logs = <<>>
    /\ nPolls = 0
    /\ nErrPolls = 0
    /\ nSoftReset = 0

\* interpretStatus(status, error_id) of the gas sensor on the given bytes
InterpretStatus ==
    /\ op = "input"
    /\ Apply("interpretStatus", arg, interpretStatus(arg.data[1], arg.data[2]))
    /\ UNCHANGED <<nPolls, nErrPolls, nSoftReset>>

\* checkStatus(status) of the MAX30102 on the given status byte
CheckStatus ==
    /\ op = "input"
    /\ Apply("checkStatus", arg, checkStatus(arg.data[1]))
    /\ UNCHANGED <<nPolls, nErrPolls, nSoftReset>>

NextStatus ==
    \/ InterpretStatus
    \/ CheckStatus

SpecStatus == InitStatus /\ [][NextStatus]_vars

(* --------------- gas sensor calls with failing bus writes --------------- *)

\* payloads of the polls followed here: every status byte, fixed data bytes
GasReadDataBus ==
    { rd \in GasReadData :
        rd[1] = 1 /\ rd[3] = 0 /\ rd[4] = 1 /\ rd[6] = 0 /\ rd[7] = 0 }

\* the status codes the bus reports for the first, second and third write of
\* a call; no driver method reads the status code after a write
WriteStatus(k) == { w \in [1..k -> StatusCodes] : TRUE }

\* a poll of the gas sensor; ws are the status codes of its writes, if any
GetECO2ETVOCBus ==
    /\ nPolls < MaxPolls
    /\ \E rd \in GasReadDataBus, sc \in StatusCodes, ws \in WriteStatus(3) :
         LET e == getECO2ETVOC(rd, sc)
         IN  /\ Apply("getECO2ETVOC",
                      [data |-> rd, status_code |-> sc, write_status_code |-> ws], e)
             /\ nPolls' = nPolls + 1
             /\ nErrPolls' = nErrPolls + (IF sc = 0 /\ rd[5] % 2 = 1 THEN 1 ELSE 0)
             /\ nSoftReset' = nSoftReset + Count(e.calls, "softReset")

\* the caller starts the gas sensor; ws are the status codes of the two writes
CCS811InitializeBus ==
    \E ws \in WriteStatus(2) :
      /\ Apply("initialize", [data |-> <<>>, status_code |-> 0, write_status_code |-> ws],
               CCS811_initialize)
      /\ UNCHANGED <<nPolls, nErrPolls, nSoftReset>>

\* the caller resets the gas sensor; nSoftReset counts the resets of polls only
CCS811SoftResetBus ==
    \E ws \in WriteStatus(1) :
      /\ Apply("softReset", [data |-> <<>>, status_code |-> 0, write_status_code |-> ws],
               CCS811_softReset)
      /\ UNCHANGED <<nPolls, nErrPolls, nSoftReset>>

NextBus ==
    \/ GetECO2ETVOCBus
    \/ CCS811InitializeBus
    \/ CCS811SoftResetBus

SpecBus == Init /\ [][NextBus]_vars

(* ------------------------------ properties ------------------------------ *)

\* the last call was a gas poll whose read succeeded
GasPollOk == op = "getECO2ETVOC" /\ arg.status_code = 0

\* the last call was a humidity / temperature poll whose read succeeded
BioPollOk == op = "getHumidityTemperature" /\ arg.status_code = 0

\* bit k of the byte x
BitSet(x, k) == (x \div (2 ^ k)) % 2 = 1

\* a gas status byte with the error bit clear and bits 3, 4 and 7 set
StatusValid(st) == ~BitSet(st, 0) /\ BitSet(st, 3) /\ BitSet(st, 4) /\ BitSet(st, 7)

\* the three writes a recovery may issue, and the init write of the MAX30102
ResetKeyWrite == [op |-> "write", data |-> <<255, 17, 229, 114, 138>>, n |-> 0]
AppStartWrite == [op |-> "write", data |-> <<244>>, n |-> 0]
MeasModeWrite == [op |-> "write", data |-> <<1, 16>>, n |-> 0]
BioInitWrite == [op |-> "write", data |-> INIT_CMD_LIST, n |-> 0]
ResultRead == [op |-> "writeread", data |-> <<2>>, n |-> 8]

RecoveryWrites == {ResetKeyWrite, AppStartWrite, MeasModeWrite, BioInitWrite}

NoRecoveryWrite == \A i \in 1..Len(bus) : bus[i] \notin RecoveryWrites

Entered(m) == \E i \in 1..Len(calls) : calls[i] = m

\* C1: a gas poll returns (-1,-1) or a pair with eCO2 in 400..29206 and
\* eTVOC in 0..32768
C1_ResultValidOrSentinel ==
    op = "getECO2ETVOC" =>
        \/ ret = <<-1, -1>>
        \/ (ret[1] \in 400..29206 /\ ret[2] \in 0..32768)

\* C2: a humidity / temperature poll that returns -1 in one position returns
\* -1 in the other position too
C2_SentinelPaired ==
    (op = "getHumidityTemperature" /\ exc = "none") =>
        ((ret[1] = -1 * Scale) <=> (ret[2] = -1 * Scale))

\* C3: every successful gas poll with the error bit set returns (-1,-1) and
\* runs softReset and initialize once each; the softReset calls so far are as
\* many as such polls
C3_ErrorPollRecoversOnce ==
    /\ nSoftReset = nErrPolls
    /\ (GasPollOk /\ BitSet(arg.data[5], 0)) =>
          /\ ret = <<-1, -1>>
          /\ calls = <<"getECO2ETVOC", "interpretStatus", "softReset", "initialize">>

C3_Witness ==
    /\ GasPollOk
    /\ arg.data[5] = 255
    /\ arg.data[6] = 48
    /\ nErrPolls = 2
    /\ nSoftReset = 2
    /\ ret = <<-1, -1>>

\* C4: a poll of either driver whose read fails at the transport returns
\* (-1,-1), enters neither interpretStatus nor checkStatus and issues no
\* soft reset or initialize write
C4_TransportFailureSkips ==
    (op \in {"getECO2ETVOC", "getHumidityTemperature"} /\ arg.status_code # 0) =>
        /\ ret = IF op = "getECO2ETVOC" THEN <<-1, -1>> ELSE <<-1 * Scale, -1 * Scale>>
        /\ exc = "none"
        /\ ~Entered("interpretStatus")
        /\ ~Entered("checkStatus")
        /\ ~Entered("softReset")
        /\ ~Entered("initialize")
        /\ NoRecoveryWrite

\* a failed read whose status byte would have started a recovery
C4_Witness ==
    /\ op = "getECO2ETVOC"
    /\ arg.status_code # 0
    /\ arg.data[5] = 255
    /\ ret = <<-1, -1>>
    /\ Len(bus) = 1

\* C5: a successful humidity / temperature read with a valid status byte and
\* a converted value outside the plausible range attempts a soft reset and
\* returns (-1,-1) without an exception
C5_FakeValueYieldsSentinel ==
    (/\ BioPollOk
     /\ ~BitSet(arg.data[1], 7)
     /\ BitSet(arg.data[1], 3)
     /\ IsFake(HumidityOf(HumidityData(arg.data)),
               TemperatureOf(TemperatureData(arg.data)))) =>
        /\ exc = "none"
        /\ ret = <<-1 * Scale, -1 * Scale>>
        /\ Entered("softReset")

\* C6: a successful gas read with a valid status byte and eTVOC in 0..32768
\* returns (byte0*256+byte1, byte2*256+byte3) and issues no bus write
C6_ValidPayloadDecoded ==
    (/\ GasPollOk
     /\ StatusValid(arg.data[5])
     /\ arg.data[3] * 256 + arg.data[4] \in 0..32768) =>
        /\ ret = << arg.data[1] * 256 + arg.data[2], arg.data[3] * 256 + arg.data[4] >>
        /\ bus = << ResultRead >>

C6_Witness ==
    /\ GasPollOk
    /\ StatusValid(arg.data[5])
    /\ arg.data[6] = 48
    /\ arg.data[7] = 255
    /\ ret = <<400, 32768>>

\* C7: a successful gas read with a valid status byte and eTVOC above 32768
\* (or below 0) returns (-1,-1) and starts no reset or initialize
C7_StrangeTVOCRejected ==
    (/\ GasPollOk
     /\ StatusValid(arg.data[5])
     /\ (arg.data[3] * 256 + arg.data[4] > 32768 \/ arg.data[3] * 256 + arg.data[4] < 0)) =>
        /\ ret = <<-1, -1>>
        /\ ~Entered("softReset")
        /\ ~Entered("initialize")
        /\ bus = << ResultRead >>

C7_Witness ==
    /\ GasPollOk
    /\ StatusValid(arg.data[5])
    /\ arg.data[3] * 256 + arg.data[4] = 32769
    /\ ret = <<-1, -1>>

\* |x|
Abs(x) == IF x < 0 THEN -x ELSE x

\* C8: for humidity > 0 and temperature > -25 the written bytes decoded as
\* (hi*256+lo)/512 are within 1/512 of humidity and of temperature+25
C8_EnvRoundTrip ==
    (op = "writeEnvironmentData" /\ arg.data[1] > 0 /\ arg.data[2] > -25 * EnvDen) =>
        /\ Len(bus) = 1
        /\ Len(bus[1].data) = 5
        /\ Abs((bus[1].data[2] * 256 + bus[1].data[3]) * EnvFine - arg.data[1]) <= EnvFine
        /\ Abs((bus[1].data[4] * 256 + bus[1].data[5]) * EnvFine
               - (arg.data[2] + 25 * EnvDen)) <= EnvFine

\* an off-grid humidity and an off-grid temperature were written
C8_Witness ==
    /\ op = "writeEnvironmentData"
    /\ arg.data[1] = 50 * EnvDen + 3
    /\ arg.data[2] = -25 * EnvDen + 1
    /\ Len(bus) = 1
    /\ bus[1].data[2] = 100
    /\ bus[1].data[5] = 0

\* C9: writeEnvironmentData issues no transaction when humidity <= 0 or
\* temperature <= -25, one write of 5 bytes starting with 0x05 otherwise, and
\* raises or logs nothing
C9_EnvWriteGuard ==
    op = "writeEnvironmentData" =>
        /\ exc = "none"
        /\ logs = <<>>
        /\ IF arg.data[1] <= 0 \/ arg.data[2] <= -25 * EnvDen
             THEN bus = <<>>
             ELSE /\ Len(bus) = 1
                  /\ bus[1].op = "write"
                  /\ Len(bus[1].data) = 5
                  /\ bus[1].data[1] = 5

\* humidity accepted, temperature alone refused: nothing written
C9_Witness ==
    /\ op = "writeEnvironmentData"
    /\ arg.data[1] > 0
    /\ arg.data[2] <= -25 * EnvDen
    /\ bus = <<>>
    /\ exc = "none"

\* C10: a successful gas poll with the error bit set issues the result read,
\* the reset key write, the app-start write and the measurement-mode write, in
\* this order and nothing else, so each reset write of a poll is followed by
\* both writes of initialize
C10_ErrorPollBusSequence ==
    /\ (GasPollOk /\ BitSet(arg.data[5], 0)) =>
          bus = << ResultRead, ResetKeyWrite, AppStartWrite, MeasModeWrite >>
    /\ op = "getECO2ETVOC" =>
          \A i \in 1..Len(bus) :
              bus[i] = ResetKeyWrite =>
                  /\ i + 2 <= Len(bus)
                  /\ bus[i + 1] = AppStartWrite
                  /\ bus[i + 2] = MeasModeWrite

C10_Witness ==
    /\ GasPollOk
    /\ arg.data[5] = 1
    /\ arg.data[6] = 0
    /\ Len(bus) = 4
    /\ bus[2] = ResetKeyWrite


\* the causes by bit number + 1
CauseOfBit ==
    << WRITE_REG_INVALID, READ_REG_INVALID, MEASMODE_INVALID,
       MAX_RESISTANCE, HEATER_FAULT, HEATER_SUPPLY >>

\* positions of the log of the last call that hold one of the six causes
LoggedCauses == { i \in 1..Len(logs) : \E k \in 1..6 : logs[i] = CauseOfBit[k] }

\* the bits set among bits 0..5 of the byte e
LowBits(e) == { k \in 0..5 : BitSet(e, k) }

Lowest(S) == CHOOSE k \in S : \A j \in S : k <= j

\* interpretStatus was called with the error flag set
ErrorSeen == op = "interpretStatus" /\ BitSet(arg.data[1], 0)

\* C11 as stated: with the error flag set interpretStatus reports exactly one
\* of the six causes, the one of the lowest set bit of error_id bits 0..5, for
\* every error_id
C11_OneCauseAlways ==
    ErrorSeen =>
        /\ LowBits(arg.data[2]) # {}
        /\ Cardinality(LoggedCauses) = 1
        /\ \A i \in LoggedCauses : logs[i] = CauseOfBit[Lowest(LowBits(arg.data[2])) + 1]

\* C11 amended: with the error flag set interpretStatus reports exactly one
\* cause, the one of the lowest set bit, when error_id has a bit set among
\* bits 0..5, and no cause at all when it has none (0, 64, 128, 192)
C11_OneCauseWhenBitSet ==
    ErrorSeen =>
        /\ logs[1] = "CCS811 has error"
        /\ IF LowBits(arg.data[2]) = {}
             THEN LoggedCauses = {}
             ELSE /\ LoggedCauses = {2}
                  /\ logs[2] = CauseOfBit[Lowest(LowBits(arg.data[2])) + 1]

\* error_id 0b11000110: bits 1 and 2 set, bit 1 wins
C11_Witness ==
    /\ ErrorSeen
    /\ arg.data[2] = 198
    /\ logs[2] = READ_REG_INVALID
    /\ Cardinality(LoggedCauses) = 1

\* the first log record of each refusing branch of interpretStatus
BranchLogs ==
    { "CCS811 has error", "CCS811 has no new data",
      "CCS811 did not load valid application firmware",
      "CCS811 is not in application mode" }

\* C12: interpretStatus returns valid iff bit 0 is clear and bits 3, 4 and 7
\* are set; one branch fires, error before no-new-data before invalid-firmware
\* before not-in-application-mode
C12_StatusChain ==
    op = "interpretStatus" =>
        LET st == arg.data[1]
        IN  /\ ret = (~BitSet(st, 0) /\ BitSet(st, 3) /\ BitSet(st, 4) /\ BitSet(st, 7))
            /\ Cardinality({ i \in 1..Len(logs) : logs[i] \in BranchLogs })
                 = (IF ret THEN 0 ELSE 1)
            /\ IF BitSet(st, 0)
                 THEN logs[1] = "CCS811 has error" /\ Entered("softReset")
               ELSE IF ~BitSet(st, 3)
                 THEN logs = <<"CCS811 has no new data">> /\ bus = <<>>
               ELSE IF ~BitSet(st, 4)
                 THEN logs = <<"CCS811 did not load valid application firmware">>
                      /\ bus = <<>>
               ELSE IF ~BitSet(st, 7)
                 THEN logs = <<"CCS811 is not in application mode">> /\ bus = <<>>
               ELSE logs = <<>> /\ bus = <<>>

\* error bit set while bits 3, 4 and 7 are clear: handled as an error
C12_Witness ==
    /\ op = "interpretStatus"
    /\ arg.data[1] = 1
    /\ ret = FALSE
    /\ logs[1] = "CCS811 has error"
    /\ Len(bus) = 3

\* C15: checkStatus returns valid iff bit 7 is clear and bit 3 is set; a busy
\* sensor gets no bus write even with bit 3 clear; a sensor that is not busy
\* and not calibrated gets initialize once, one write of the init commands
C15_CheckStatus ==
    op = "checkStatus" =>
        LET st == arg.data[1]
        IN  /\ ret = (~BitSet(st, 7) /\ BitSet(st, 3))
            /\ BitSet(st, 7) => (bus = <<>> /\ ~Entered("initialize"))
            /\ (~BitSet(st, 7) /\ ~BitSet(st, 3)) =>
                  /\ bus = << BioInitWrite >>
                  /\ calls = <<"checkStatus", "initialize">>
            /\ ret => bus = <<>>

\* busy and not calibrated: refused without a write
C15_Witness ==
    /\ op = "checkStatus"
    /\ arg.data[1] = 128 + 2
    /\ ret = FALSE
    /\ bus = <<>>
    /\ logs = <<"MAX30102 is busy">>


\* C13: a successful gas poll with the error bit clear and bit 3, 4 or 7 clear
\* returns (-1,-1) and its result read is its only bus transaction
C13_NotReadyNoWrite ==
    (/\ GasPollOk
     /\ ~BitSet(arg.data[5], 0)
     /\ (~BitSet(arg.data[5], 3) \/ ~BitSet(arg.data[5], 4) \/ ~BitSet(arg.data[5], 7))) =>
        /\ ret = <<-1, -1>>
        /\ bus = << ResultRead >>
        /\ ~Entered("softReset")
        /\ ~Entered("initialize")

\* firmware valid and new data, but not in application mode
C13_Witness ==
    /\ GasPollOk
    /\ arg.data[5] = 24
    /\ ret = <<-1, -1>>
    /\ Len(bus) = 1
    /\ logs = <<"CCS811 is not in application mode">>

\* number of transactions of kind k issued by the last call
Issued(k) == Cardinality({ i \in 1..Len(bus) : bus[i].op = k })

\* C14: a gas poll issues one result read, first, and at most three writes,
\* each one of reset key, app-start, measurement-mode; the recovery runs at
\* most once, also when its writes fail at the transport
C14_PollBounded ==
    op = "getECO2ETVOC" =>
        /\ bus[1] = ResultRead
        /\ Issued("writeread") = 1
        /\ Issued("read") = 0
        /\ Issued("write") <= 3
        /\ \A i \in 2..Len(bus) : bus[i] \in {ResetKeyWrite, AppStartWrite, MeasModeWrite}
        /\ Count(calls, "softReset") <= 1
        /\ Count(calls, "initialize") <= 1
        /\ Count(calls, "interpretStatus") <= 1
        /\ Count(calls, "getECO2ETVOC") = 1

\* an error poll all of whose recovery writes failed
C14_Witness ==
    /\ GasPollOk
    /\ BitSet(arg.data[5], 0)
    /\ \A i \in 1..3 : arg.write_status_code[i] # 0
    /\ Len(bus) = 4
    /\ Count(calls, "softReset") = 1

\* a MAX30102 status byte that checkStatus accepts
BioStatusValid(st) == ~BitSet(st, 7) /\ BitSet(st, 3)

\* C16: humidity_raw is b1*4096 + b2*16 + (b3 >> 4), lies in 0..2^20-1, and
\* the converted humidity never exceeds 100 percent
C16_HumidityPacking ==
    (BioPollOk /\ BioStatusValid(arg.data[1])) =>
        LET packed == arg.data[2] * 4096 + arg.data[3] * 16 + (arg.data[4] \div 16)
        IN  /\ HumidityData(arg.data) = packed
            /\ HumidityData(arg.data) \in 0..(2 ^ 20 - 1)
            /\ HumidityOf(HumidityData(arg.data)) <= 100 * Scale
            /\ exc = "none" => ret[1] = packed * 100

\* C17: for 0 < humidity <= 100 and -25 < temperature <= 120 each of the four
\* payload values written after 0x05 is a byte
C17_EnvPayloadBytes ==
    (/\ op = "writeEnvironmentData"
     /\ arg.data[1] > 0
     /\ arg.data[1] <= 100 * EnvDen
     /\ arg.data[2] > -25 * EnvDen
     /\ arg.data[2] <= 120 * EnvDen) =>
        /\ Len(bus) = 1
        /\ \A i \in 2..5 : bus[1].data[i] \in 0..255

\* C18: the temperature compared with [-40, 120] and returned is
\* temperature_raw*200/2^20 - 51, a function of bytes 3..5 of the reading; a
\* value outside the range (raw 0 gives -51) takes the rejection path
C18_TemperatureConversion ==
    (BioPollOk /\ BioStatusValid(arg.data[1])) =>
        LET raw == (arg.data[4] % 16) * 65536 + arg.data[5] * 256 + arg.data[6]
            t   == raw * 200 - 51 * 1048576
        IN  /\ exc = "none" =>
                  /\ ret[2] = t
                  /\ t >= -40 * 1048576
                  /\ t <= 120 * 1048576
            /\ (t < -40 * 1048576 \/ t > 120 * 1048576) =>
                  /\ Entered("softReset")
                  /\ logs = <<"MAX30102 humidity/temperature value is fake.">>
                  /\ ~(exc = "none" /\ Len(ret) = 2 /\ ret[2] = t)
            /\ raw = 0 => (t = -51 * 1048576 /\ exc # "none")

\* after a gas poll, raw 0xD0000 is returned as 0xD0000*200/2^20 - 51 = 111.5
C18_Witness ==
    /\ BioPollOk
    /\ BioStatusValid(arg.data[1])
    /\ arg.data[4] = 13
    /\ arg.data[5] = 0
    /\ nPolls = 1
    /\ exc = "none"
    /\ ret[2] = 851968 * 200 - 51 * 1048576

\* C19: initialize issues the app-start write then the measurement-mode
\* write, softReset the one write of the 5-byte reset sequence, whatever
\* status code the bus reports for a write, and nothing is returned or raised
C19_InitAndResetWrites ==
    /\ op = "initialize" =>
          (bus = << AppStartWrite, MeasModeWrite >> /\ ret = <<>> /\ exc = "none")
    /\ op = "softReset" =>
          (bus = << ResetKeyWrite >> /\ Len(bus[1].data) = 5 /\ ret = <<>> /\ exc = "none")

\* the first write of initialize failed, the second was issued all the same
C19_Witness ==
    /\ op = "initialize"
    /\ arg.write_status_code[1] # 0
    /\ Len(bus) = 2
    /\ bus[2] = MeasModeWrite
    /\ exc = "none"

\* the pair a gas poll returns for the input a
ExpectedPair(a) ==
    IF /\ a.status_code = 0
       /\ StatusValid(a.data[5])
       /\ a.data[3] * 256 + a.data[4] <= 32768
      THEN << a.data[1] * 256 + a.data[2], a.data[3] * 256 + a.data[4] >>
      ELSE <<-1, -1>>

\* the bus transactions a gas poll issues for the input a
ExpectedBus(a) ==
    IF a.status_code = 0 /\ BitSet(a.data[5], 0)
      THEN << ResultRead, ResetKeyWrite, AppStartWrite, MeasModeWrite >>
      ELSE << ResultRead >>

\* C20: whatever calls came before, the pair a gas poll returns and the bus
\* transactions it issues are given by its own status code and payload alone
C20_PollStateless ==
    [][op' = "getECO2ETVOC" => (ret' = ExpectedPair(arg') /\ bus' = ExpectedBus(arg'))]_vars

\* a valid reading returned by the poll that follows an error poll
C20_Witness ==
    /\ GasPollOk
    /\ nPolls = 2
    /\ nErrPolls = 1
    /\ nSoftReset = 1
    /\ StatusValid(arg.data[5])
    /\ ret = <<400, 1>>

====
